---- MODULE Spec2Model ----
(***************************************************************************)
(* Escape-time engine (generate_julia_set, mandelbrot, complex_matrix) and *)
(* the drag controller (InteractiveJulia) of mandel-julia/interactive.py.  *)
(*                                                                         *)
(* Numbers.  The program computes in binary floating point.  Here a real   *)
(* is an integer count of 1/Scale units and a complex number is a record   *)
(* [re, im] of two such counts; every product is rounded to the nearest    *)
(* unit, the way the hardware rounds it to the nearest double.  On the     *)
(* integers and halves used as inputs the sums are exact.                  *)
(*                                                                         *)
(* Arrays.  A 2-D array is a record [shape |-> <<rows, cols>>, data |-> f] *)
(* with f a function on (1..rows) \X (1..cols); a 1-D array has shape <<n>> *)
(* and a sequence of length n as data.                                     *)
(***************************************************************************)
EXTENDS Integers, Sequences, FiniteSets, TLC

VARIABLES
    \* one call of generate_julia_set(c, xmin, xmax, ymin, ymax, width, height, max_iter)
    jargs,      \* the arguments c, xmin, xmax, ymin, ymax, width, height
    max_iter,   \* the argument max_iter of the call in progress
    Z,          \* local Z
    julia,      \* local julia
    jpass,      \* number of completed turns of the loop at line 18
    jmasks,     \* the values local mask has taken, one per completed turn
    jpc,        \* position in generate_julia_set
    jreturned,  \* what the previous call returned, with its max_iter
    \* one call of complex_matrix(...) followed by mandelbrot(c, iterations)
    margs,      \* the arguments xmin, xmax, ymin, ymax, pixel_density
    c,          \* the matrix complex_matrix returned, argument c of mandelbrot
    iterations, \* the argument iterations
    z,          \* local z
    stable,     \* local stable
    i,          \* loop variable i at line 31 (next index to run)
    mmasks,     \* the values local mask has taken, one per completed turn
    mpc,        \* position in complex_matrix / mandelbrot ("kept": the caller
                \* holds the returned field and calls mandelbrot no more)
    \* the InteractiveJulia object and the host event loop
    dragging,   \* self.dragging
    control_x,  \* self.control_x
    control_y,  \* self.control_y
    dot,        \* data of self.dot
    image,      \* data of self.image
    event,      \* the event handed to the handler that ran last
    updates,    \* calls of update() made so far
    dragMoves,  \* motion events delivered while dragging, inside ax2
    delivered,  \* events delivered so far
    cpc         \* position in __main__

jvars == <<jargs, max_iter, Z, julia, jpass, jmasks, jpc, jreturned>>
mvars == <<margs, c, iterations, z, stable, i, mmasks, mpc>>
cvars == <<dragging, control_x, control_y, dot, image, event, updates, dragMoves,
           delivered, cpc>>
vars == <<jvars, mvars, cvars>>

-----------------------------------------------------------------------------
(* Bounds of the model *)

\* units per 1.0 of the fixed-point reals
Scale == 8
\* largest iteration budget a call is given
MaxIter == 3
\* largest explicit width / height given to generate_julia_set
MaxSide == 3
\* resolution and budget of the controller's Julia image (512, 512 and 100 in
\* the program, lines 52-56)
CtlWidth == 3
CtlHeight == 3
CtlMaxIter == 3
\* events the host delivers in one run
MaxEvents == 4

Half == Scale \div 2

-----------------------------------------------------------------------------
(* Arithmetic *)

\* n/d rounded to the nearest integer, d > 0 (rounding of a float result)
RoundDiv(n, d) == (2 * n + d) \div (2 * d)

Complex(re, im) == [re |-> re, im |-> im]

\* z ** 2 + c on complex floats
CAdd(a, b) == Complex(a.re + b.re, a.im + b.im)
CSquare(a) ==
    Complex(RoundDiv(a.re * a.re, Scale) - RoundDiv(a.im * a.im, Scale),
            RoundDiv(2 * a.re * a.im, Scale))

\* np.abs(a) <= 2
AbsLe2(a) == a.re * a.re + a.im * a.im <= 4 * Scale * Scale

\* int(x) of a float x = n/d, d > 0: truncation toward zero
PyInt(n, d) == IF n >= 0 THEN n \div d ELSE -((-n) \div d)

Error == [raised |-> "ValueError"]

\* np.linspace(start, stop, num): num samples, both ends included; a negative
\* num raises ValueError
linspace(start, stop, num) ==
    IF num < 0 THEN Error
    ELSE [shape |-> <<num>>,
          data  |-> [k \in 1..num |->
                       IF num = 1 THEN start
                       ELSE start + RoundDiv((k - 1) * (stop - start), num - 1)]]

\* the indices <<row, column>> of a 2-D array of the given shape
Index(shape) == (1 .. shape[1]) \X (1 .. shape[2])

Pixels(a) == DOMAIN a.data

\* np.zeros(shape, dtype=int)
zeros(shape) == [shape |-> shape, data |-> [p \in Index(shape) |-> 0]]

NoArray == [shape |-> <<0, 0>>, data |-> <<>>]

-----------------------------------------------------------------------------
(* generate_julia_set, lines 5-23 *)

\* lines 9-12: x, y, meshgrid and Z = X + 1j * Y; rows follow y, columns x
JuliaGrid(xmin, xmax, ymin, ymax, width, height) ==
    LET x == linspace(xmin, xmax, width)
        y == linspace(ymin, ymax, height)
    IN  IF x = Error \/ y = Error THEN Error
        ELSE LET shape == <<y.shape[1], x.shape[1]>>
             IN  [shape |-> shape,
                  data  |-> [p \in Index(shape) |-> Complex(x.data[p[2]], y.data[p[1]])]]

\* line 19 (and 32): mask = np.abs(Z) <= 2
Mask(A) == [p \in Pixels(A) |-> AbsLe2(A.data[p])]

\* line 20: Z[mask] = Z[mask] ** 2 + c
JuliaAssign(A, mask, cc) ==
    [A EXCEPT !.data = [p \in Pixels(A) |->
        IF mask[p] THEN CAdd(CSquare(A.data[p]), cc) ELSE A.data[p]]]

\* julia += 1: the count of every pixel grows, escaped or not
AddMask_All(A, mask) ==
    [A EXCEPT !.data = [p \in Pixels(A) |-> A.data[p] + 1]]

\* julia = (julia + 1) * mask: an escaped pixel's count is cleared
AddMask_ClearEscaped(A, mask) ==
    [A EXCEPT !.data = [p \in Pixels(A) |-> IF mask[p] THEN A.data[p] + 1 ELSE 0]]

\* line 21: julia += mask
AddMask(A, mask) ==
    [A EXCEPT !.data = [p \in Pixels(A) |-> A.data[p] + IF mask[p] THEN 1 ELSE 0]]

\* lines 18-21: the turns of the loop that remain after `done` of them
RECURSIVE JuliaLoop(_, _, _, _, _)
JuliaLoop(A, field, cc, done, budget) ==
    IF done >= budget THEN field
    ELSE JuliaLoop(JuliaAssign(A, Mask(A), cc), AddMask(field, Mask(A)), cc,
                   done + 1, budget)

\* the whole function, as the controller calls it
generate_julia_set(cc, xmin, xmax, ymin, ymax, width, height, budget) ==
    LET G == JuliaGrid(xmin, xmax, ymin, ymax, width, height)
    IN  IF G = Error THEN Error
        ELSE JuliaLoop(G, zeros(G.shape), cc, 0, budget)

\* inputs of the calls
IterBudgets == -1 .. MaxIter
JuliaCs == { Complex(0, 0), Complex(-Scale, 0), Complex(0, Scale),
             Complex(Half, 0), Complex(Scale, Half) }
JuliaRegions ==
    { <<-2 * Scale, 2 * Scale, -2 * Scale, 2 * Scale>>,
      <<-Scale, Half, 0, Scale>>,
      <<Scale, -Scale, Half, 0>>,
      <<0, 0, -Scale, -Scale>> }
JuliaArgs ==
    { [c |-> cc, xmin |-> r[1], xmax |-> r[2], ymin |-> r[3], ymax |-> r[4],
       width |-> w, height |-> h] :
         cc \in JuliaCs, r \in JuliaRegions, w \in -1 .. MaxSide, h \in 0 .. MaxSide }

NoReturn == [returned |-> FALSE, max_iter |-> 0, value |-> NoArray]

JuliaIdle ==
    /\ jargs = "none" /\ max_iter = 0 /\ Z = NoArray /\ julia = NoArray
    /\ jpass = 0 /\ jmasks = <<>> /\ jpc = "off" /\ jreturned = NoReturn

InitJulia ==
    /\ jargs \in JuliaArgs
    /\ max_iter = 0 /\ Z = NoArray /\ julia = NoArray
    /\ jpass = 0 /\ jmasks = <<>> /\ jpc = "idle" /\ jreturned = NoReturn

\* the caller enters generate_julia_set with budget m; lines 9-15
JuliaCall(m) ==
    /\ jpc \in {"idle", "returned", "raised"}
    /\ jreturned' = IF jpc = "returned"
                    THEN [returned |-> TRUE, max_iter |-> max_iter, value |-> julia]
                    ELSE jreturned
    /\ max_iter' = m
    /\ jpass' = 0
    /\ jmasks' = <<>>
    /\ LET G == JuliaGrid(jargs.xmin, jargs.xmax, jargs.ymin, jargs.ymax,
                          jargs.width, jargs.height)
       IN  IF G = Error
           THEN /\ jpc' = "raised"
                /\ Z' = NoArray
                /\ julia' = NoArray
           ELSE /\ jpc' = "loop"
                /\ Z' = G
                /\ julia' = zeros(G.shape)
    /\ UNCHANGED <<jargs, mvars, cvars>>

\* one turn of the loop, lines 18-21
JuliaPass ==
    /\ jpc = "loop"
    /\ jpass < max_iter
    /\ LET mask == Mask(Z)
       IN  /\ Z' = JuliaAssign(Z, mask, jargs.c)
           /\ julia' = AddMask(julia, mask)
           /\ jmasks' = Append(jmasks, mask)
    /\ jpass' = jpass + 1
    /\ UNCHANGED <<jargs, max_iter, jpc, jreturned, mvars, cvars>>

\* line 23: the range is exhausted, return julia
JuliaReturn ==
    /\ jpc = "loop"
    /\ jpass >= max_iter
    /\ jpc' = "returned"
    /\ UNCHANGED <<jargs, max_iter, Z, julia, jpass, jmasks, jreturned, mvars, cvars>>

NextJulia ==
    \/ \E m \in IterBudgets : JuliaCall(m)
    \/ JuliaPass
    \/ JuliaReturn

-----------------------------------------------------------------------------
(* complex_matrix, lines 39-42, and mandelbrot, lines 25-37 *)

\* Python's round(x) of a float x = n/d, d > 0: to nearest, ties to even
PyRound(n, d) ==
    LET q == n \div d
        r == n % d
    IN  IF 2 * r < d THEN q
        ELSE IF 2 * r > d THEN q + 1
        ELSE IF q % 2 = 0 THEN q ELSE q + 1

\* round((hi - lo) * pixel_density) in place of int(...)
Samples_Rounded(lo, hi, pixel_density) ==
    PyRound((hi - lo) * pixel_density, Scale * Scale)

\* int((hi - lo) * pixel_density): the number of samples along one axis
Samples(lo, hi, pixel_density) == PyInt((hi - lo) * pixel_density, Scale * Scale)

complex_matrix(xmin, xmax, ymin, ymax, pixel_density) ==
    LET re == linspace(xmin, xmax, Samples(xmin, xmax, pixel_density))
        im == linspace(ymin, ymax, Samples(ymin, ymax, pixel_density))
    IN  IF re = Error \/ im = Error THEN Error
        ELSE LET shape == <<im.shape[1], re.shape[1]>>
             IN  [shape |-> shape,
                  data  |-> [p \in Index(shape) |-> Complex(re.data[p[2]], im.data[p[1]])]]

\* line 29: z = np.zeros_like(c)
zeros_like(A) == [shape |-> A.shape, data |-> [p \in Index(A.shape) |-> Complex(0, 0)]]

\* line 33: z[mask] = z[mask] ** 2 + c[mask]
MandelAssign(A, mask, C) ==
    [A EXCEPT !.data = [p \in Pixels(A) |->
        IF mask[p] THEN CAdd(CSquare(A.data[p]), C.data[p]) ELSE A.data[p]]]

\* stable[mask] = i + 1: the count convention of generate_julia_set
StableAssign_Count(A, mask, k) ==
    [A EXCEPT !.data = [p \in Pixels(A) |-> IF mask[p] THEN k + 1 ELSE A.data[p]]]

\* stable[:] = i: the mask is dropped
StableAssign_Unmasked(A, mask, k) ==
    [A EXCEPT !.data = [p \in Pixels(A) |-> k]]

\* line 35: stable[mask] = i
StableAssign(A, mask, k) ==
    [A EXCEPT !.data = [p \in Pixels(A) |-> IF mask[p] THEN k ELSE A.data[p]]]

MandelRegions ==
    { <<-2 * Scale, Half, -3 * Half, 3 * Half>>,
      <<-Scale, Scale, -Scale, Scale>>,
      <<0, 3 * Scale, 0, Scale>>,
      <<Half, -2 * Scale, -3 * Half, 3 * Half>>,
      <<Half, 0, 0, Half>> }
Densities == { Half, Scale, 3 * Half }
MandelArgs ==
    { [xmin |-> r[1], xmax |-> r[2], ymin |-> r[3], ymax |-> r[4],
       pixel_density |-> d] : r \in MandelRegions, d \in Densities }

MandelIdle ==
    /\ margs = "none" /\ c = NoArray /\ iterations = 0 /\ z = NoArray
    /\ stable = NoArray /\ i = 0 /\ mmasks = <<>> /\ mpc = "off"

InitMandel ==
    /\ margs \in MandelArgs
    /\ c = NoArray /\ iterations = 0 /\ z = NoArray
    /\ stable = NoArray /\ i = 0 /\ mmasks = <<>> /\ mpc = "start"

\* the caller builds the matrix, lines 40-42
ComplexMatrix ==
    /\ mpc = "start"
    /\ LET G == complex_matrix(margs.xmin, margs.xmax, margs.ymin, margs.ymax,
                               margs.pixel_density)
       IN  IF G = Error
           THEN /\ mpc' = "raised"
                /\ c' = NoArray
           ELSE /\ mpc' = "matrix"
                /\ c' = G
    /\ UNCHANGED <<margs, iterations, z, stable, i, mmasks, jvars, cvars>>

\* the caller enters mandelbrot(c, n); lines 29-30
MandelCall(n) ==
    /\ mpc \in {"matrix", "returned"}
    /\ iterations' = n
    /\ z' = zeros_like(c)
    /\ stable' = zeros(c.shape)
    /\ i' = 0
    /\ mmasks' = <<>>
    /\ mpc' = "loop"
    /\ UNCHANGED <<margs, c, jvars, cvars>>

\* one turn of the loop, lines 31-35
MandelPass ==
    /\ mpc = "loop"
    /\ i < iterations
    /\ LET mask == Mask(z)
       IN  /\ z' = MandelAssign(z, mask, c)
           /\ stable' = StableAssign(stable, mask, i)
           /\ mmasks' = Append(mmasks, mask)
    /\ i' = i + 1
    /\ UNCHANGED <<margs, c, iterations, mpc, jvars, cvars>>

\* line 37: the range is exhausted, return stable
MandelReturn ==
    /\ mpc = "loop"
    /\ i >= iterations
    /\ mpc' = "returned"
    /\ UNCHANGED <<margs, c, iterations, z, stable, i, mmasks, jvars, cvars>>

NextMandel ==
    \/ ComplexMatrix
    \/ \E n \in IterBudgets : MandelCall(n)
    \/ MandelPass
    \/ MandelReturn

-----------------------------------------------------------------------------
(* InteractiveJulia, lines 44-119, and __main__, lines 121-124 *)

\* lines 50-51: the region of the Julia image
CtlXmin == -3 * Half
CtlXmax == 3 * Half
CtlYmin == -3 * Half
CtlYmax == 3 * Half

\* what the host hands to a handler: the axes under the pointer and the pointer's
\* data coordinates there; outside every axes all three are None
Events ==
    { [inaxes |-> "ax2", xdata |-> x, ydata |-> y] :
          x \in {-Scale, 0, Half}, y \in {0, Scale} }
    \cup { [inaxes |-> "ax1", xdata |-> Scale, ydata |-> -Scale] }
    \cup { [inaxes |-> "None", xdata |-> "None", ydata |-> "None"] }

NoEvent == [name |-> "none", inaxes |-> "None", xdata |-> "None", ydata |-> "None"]

Named(name, e) ==
    [name |-> name, inaxes |-> e.inaxes, xdata |-> e.xdata, ydata |-> e.ydata]

CtlIdle ==
    /\ dragging = FALSE /\ control_x = 0 /\ control_y = 0 /\ dot = <<0, 0>>
    /\ image = NoArray /\ event = NoEvent /\ updates = 0 /\ dragMoves = 0
    /\ delivered = 0 /\ cpc = "off"

\* the object after __init__, line 122
InitCtl ==
    /\ dragging = FALSE
    /\ control_x = 0
    /\ control_y = 0
    /\ dot = <<0, 0>>
    /\ image = zeros(<<CtlHeight, CtlWidth>>)
    /\ event = NoEvent
    /\ updates = 0
    /\ dragMoves = 0
    /\ delivered = 0
    /\ cpc = "constructed"

\* update(), lines 108-119, with the control point (cx, cy): the new image data
UpdateImage(cx, cy) ==
    generate_julia_set(Complex(cx, cy), CtlXmin, CtlXmax, CtlYmin, CtlYmax,
                       CtlWidth, CtlHeight, CtlMaxIter)

\* line 123: the first update(), before the event loop starts
MainUpdate ==
    /\ cpc = "constructed"
    /\ image' = UpdateImage(control_x, control_y)
    /\ updates' = updates + 1
    /\ cpc' = "show"
    /\ UNCHANGED <<dragging, control_x, control_y, dot, event, dragMoves, delivered,
                   jvars, mvars>>

\* line 124: the event loop hands event e to the handler connected for `name`
Deliver(name, e) ==
    /\ cpc = "show"
    /\ delivered < MaxEvents
    /\ delivered' = delivered + 1
    /\ event' = Named(name, e)
    /\ dragMoves' = dragMoves +
         IF name = "motion_notify_event" /\ dragging /\ e.inaxes = "ax2" THEN 1 ELSE 0
    /\ UNCHANGED <<cpc, jvars, mvars>>

\* on_press, lines 85-89
OnPress(e) ==
    /\ Deliver("button_press_event", e)
    /\ IF e.inaxes # "ax2"
       THEN UNCHANGED dragging
       ELSE dragging' = TRUE
    /\ UNCHANGED <<control_x, control_y, dot, image, updates>>

\* on_release guarded like on_press: a release outside ax2 is ignored
OnRelease_InAxesOnly(e) ==
    /\ Deliver("button_release_event", e)
    /\ IF e.inaxes # "ax2"
       THEN UNCHANGED dragging
       ELSE dragging' = FALSE
    /\ UNCHANGED <<control_x, control_y, dot, image, updates>>

\* on_release, lines 91-93
OnRelease(e) ==
    /\ Deliver("button_release_event", e)
    /\ dragging' = FALSE
    /\ UNCHANGED <<control_x, control_y, dot, image, updates>>

\* on_move without the test of self.dragging
OnMove_NoDragTest(e) ==
    /\ Deliver("motion_notify_event", e)
    /\ IF e.inaxes = "ax2"
       THEN /\ control_x' = e.xdata
            /\ control_y' = e.ydata
            /\ dot' = <<control_x', control_y'>>
            /\ image' = UpdateImage(control_x', control_y')
            /\ updates' = updates + 1
       ELSE UNCHANGED <<control_x, control_y, dot, image, updates>>
    /\ UNCHANGED dragging

\* on_move that skips update() when the pointer has not left the control point
OnMove_SkipSamePoint(e) ==
    /\ Deliver("motion_notify_event", e)
    /\ IF dragging /\ e.inaxes = "ax2"
       THEN /\ control_x' = e.xdata
            /\ control_y' = e.ydata
            /\ dot' = <<control_x', control_y'>>
            /\ IF control_x = e.xdata /\ control_y = e.ydata
               THEN UNCHANGED <<image, updates>>
               ELSE /\ image' = UpdateImage(control_x', control_y')
                    /\ updates' = updates + 1
       ELSE UNCHANGED <<control_x, control_y, dot, image, updates>>
    /\ UNCHANGED dragging

\* on_move that calls update() before it stores the new control point
OnMove_UpdateFirst(e) ==
    /\ Deliver("motion_notify_event", e)
    /\ IF dragging /\ e.inaxes = "ax2"
       THEN /\ image' = UpdateImage(control_x, control_y)
            /\ updates' = updates + 1
            /\ control_x' = e.xdata
            /\ control_y' = e.ydata
            /\ dot' = <<control_x', control_y'>>
       ELSE UNCHANGED <<control_x, control_y, dot, image, updates>>
    /\ UNCHANGED dragging

\* on_move, lines 95-106
OnMove(e) ==
    /\ Deliver("motion_notify_event", e)
    /\ IF dragging /\ e.inaxes = "ax2"
       THEN /\ control_x' = e.xdata
            /\ control_y' = e.ydata
            /\ dot' = <<control_x', control_y'>>
            /\ image' = UpdateImage(control_x', control_y')
            /\ updates' = updates + 1
       ELSE UNCHANGED <<control_x, control_y, dot, image, updates>>
    /\ UNCHANGED dragging

NextCtl ==
    \/ MainUpdate
    \/ \E e \in Events : OnPress(e)
    \/ \E e \in Events : OnRelease(e)
    \/ \E e \in Events : OnMove(e)

-----------------------------------------------------------------------------
(* Specifications *)

\* calls of generate_julia_set on drawn arguments
InitJuliaCalls == InitJulia /\ MandelIdle /\ CtlIdle
SpecJulia == InitJuliaCalls /\ [][NextJulia]_vars

\* complex_matrix and calls of mandelbrot on drawn arguments
InitMandelCalls == JuliaIdle /\ InitMandel /\ CtlIdle
SpecMandel == InitMandelCalls /\ [][NextMandel]_vars

\* both variants of the engine, one after the other as in the program: the
\* matrix and mandelbrot first, then generate_julia_set over the same region
\* with the matrix's resolution
JuliaAfterMandel ==
    /\ mpc = "returned"
    /\ jpc = "off"
    /\ jargs' \in { [c |-> cc, xmin |-> margs.xmin, xmax |-> margs.xmax,
                      ymin |-> margs.ymin, ymax |-> margs.ymax,
                      width |-> c.shape[2], height |-> c.shape[1]] : cc \in JuliaCs }
    /\ jpc' = "idle"
    /\ mpc' = "kept"
    /\ UNCHANGED <<max_iter, Z, julia, jpass, jmasks, jreturned,
                   margs, c, iterations, z, stable, i, mmasks, cvars>>

NextEngine ==
    \/ NextMandel
    \/ JuliaAfterMandel
    \/ NextJulia
SpecEngine == InitMandelCalls /\ [][NextEngine]_vars

\* the program: the object, the first update and the event loop
Init == JuliaIdle /\ MandelIdle /\ InitCtl
Next == NextCtl
Spec == Init /\ [][Next]_vars

-----------------------------------------------------------------------------
(* Properties of the controller, checked under Spec *)

\* the step is a handler's, for an event of this name
Handled(name) == delivered' = delivered + 1 /\ event'.name = name

\* the step handles a motion event that arrives while dragging, inside ax2
DragMove == Handled("motion_notify_event") /\ dragging /\ event'.inaxes = "ax2"

\* C1: every motion event that arrives while dragging and inside ax2 sets the
\* control point to the event's (xdata, ydata) and runs update() exactly once,
\* with the new control point as c; so the update() calls made by handlers are
\* exactly as many as those motion events (updates counts the first call of
\* line 123 too).
C1_OneRecomputePerDragMove ==
    /\ [](updates = dragMoves + IF cpc = "show" THEN 1 ELSE 0)
    /\ [][DragMove =>
            /\ control_x' = event'.xdata
            /\ control_y' = event'.ydata
            /\ updates' = updates + 1
            /\ image' = UpdateImage(event'.xdata, event'.ydata)]_vars

\* two motion events at the same point while dragging, both recomputed
C1_Witness ==
    /\ dragMoves = 2 /\ updates = 3
    /\ event.name = "motion_notify_event" /\ event.inaxes = "ax2"
    /\ control_x = event.xdata /\ control_y = event.ydata
    /\ delivered = 3

\* C2: dragging starts False; a press inside ax2 makes it True, a press
\* elsewhere leaves it as it was, a release makes it False wherever the
\* pointer is, a motion event never changes it.
C2_DragStateTransitions ==
    /\ ~dragging
    /\ [][/\ Handled("button_press_event") /\ event'.inaxes = "ax2" => dragging'
          /\ Handled("button_press_event") /\ event'.inaxes # "ax2"
               => dragging' = dragging
          /\ Handled("button_release_event") => ~dragging'
          /\ Handled("motion_notify_event") => dragging' = dragging
          /\ delivered' = delivered => dragging' = dragging]_vars

\* a drag that was released outside ax2
C2_Witness ==
    /\ event.name = "button_release_event" /\ event.inaxes # "ax2"
    /\ dragMoves > 0 /\ ~dragging

\* C3: a handler changes the control point, the image or the number of
\* update() calls only when it handles a motion event that arrives while
\* dragging and inside ax2: presses, releases, motion while not dragging and
\* motion outside ax2 leave all of them as they were.
C3_OnlyDragMovesRecompute ==
    [][delivered' # delivered /\ ~DragMove =>
         /\ control_x' = control_x
         /\ control_y' = control_y
         /\ dot' = dot
         /\ image' = image
         /\ updates' = updates]_vars

\* after a drag and its release, a motion event inside ax2 at another point
\* was ignored
C3_Witness ==
    /\ event.name = "motion_notify_event" /\ event.inaxes = "ax2"
    /\ ~dragging /\ dragMoves = 1 /\ updates = 2
    /\ <<control_x, control_y>> # <<event.xdata, event.ydata>>

\* C10: once line 123 has run, and after every handler, the image shown is the
\* field generate_julia_set computes for c = control_x + control_y * 1j over
\* the fixed region, resolution and budget, and the dot sits on the control
\* point.
C10_ImageMatchesControlPoint ==
    cpc = "show" =>
        /\ image = UpdateImage(control_x, control_y)
        /\ dot = <<control_x, control_y>>

\* two drags to different points, the second one shown
C10_Witness ==
    /\ cpc = "show" /\ dragMoves >= 2
    /\ control_x = Half /\ control_y = Scale
    /\ image # UpdateImage(0, 0)
    /\ image = UpdateImage(Half, Scale)

-----------------------------------------------------------------------------
(* Properties of the engine *)

InJulia == jpc \in {"loop", "returned"}
InMandel == mpc \in {"loop", "returned", "kept"}
MandelDone == mpc \in {"returned", "kept"}

\* C4 (SpecEngine): with a budget of at least 1, after every turn of the loop
\* and at the return, every cell of julia is in 0 .. max_iter and every cell
\* of stable is in 0 .. iterations - 1.
C4_FieldRanges ==
    /\ InJulia /\ max_iter >= 1 =>
         \A p \in Pixels(julia) : julia.data[p] \in 0 .. max_iter
    /\ InMandel /\ iterations >= 1 =>
         \A p \in Pixels(stable) : stable.data[p] \in 0 .. iterations - 1

\* both fields returned, each with a cell at its upper end and a cell at 0
C4_Witness ==
    /\ MandelDone /\ iterations = MaxIter
    /\ \E p \in Pixels(stable) : stable.data[p] = iterations - 1
    /\ \E p \in Pixels(stable) : stable.data[p] = 0
    /\ jpc = "returned" /\ max_iter = MaxIter
    /\ \E p \in Pixels(julia) : julia.data[p] = max_iter
    /\ \E p \in Pixels(julia) : julia.data[p] = 0

\* the turns of mandelbrot's loop (0 .. i - 1) at whose start pixel p had |z| <= 2
ActiveTurns(p) == { k \in 0 .. i - 1 : mmasks[k + 1][p] }

Max(S) == CHOOSE m \in S : \A n \in S : n <= m

\* C5 (SpecMandel): for every pixel, stable is the last loop index at whose
\* start the pixel had |z| <= 2: index 0 always is one (z starts at 0); a pixel
\* that never escapes returns iterations - 1; a pixel first found escaped at
\* the mask test of index k returns k - 1; a pixel with |c| > 2 returns 0.
C5_StableIsLastActiveIndex ==
    InMandel /\ i >= 1 =>
        \A p \in Pixels(stable) :
            /\ 0 \in ActiveTurns(p)
            /\ stable.data[p] = Max(ActiveTurns(p))
            /\ MandelDone /\ ActiveTurns(p) = 0 .. iterations - 1
                 => stable.data[p] = iterations - 1
            /\ \A k \in 1 .. i - 1 :
                 MandelDone /\ k \notin ActiveTurns(p) /\ k - 1 \in ActiveTurns(p)
                     => stable.data[p] = k - 1
            /\ MandelDone /\ ~AbsLe2(c.data[p]) => stable.data[p] = 0

\* one matrix with a pixel that never escapes, one that escapes at once and one
\* found escaped at index 2
C5_Witness ==
    /\ mpc = "returned" /\ iterations = MaxIter
    /\ \E p \in Pixels(stable) : stable.data[p] = iterations - 1
    /\ \E p \in Pixels(stable) : ~AbsLe2(c.data[p]) /\ stable.data[p] = 0
    /\ \E p \in Pixels(stable) :
         /\ AbsLe2(c.data[p])
         /\ stable.data[p] = 1
         /\ 2 \notin ActiveTurns(p)

\* the turns of generate_julia_set's loop (1 .. jpass) at whose start pixel p
\* had |z| <= 2
JuliaActiveTurns(p) == { k \in 1 .. jpass : jmasks[k][p] }

\* the grid the call started from
Z0 == JuliaGrid(jargs.xmin, jargs.xmax, jargs.ymin, jargs.ymax,
                jargs.width, jargs.height)

\* C6 (SpecJulia): for every pixel, julia is the number of turns at whose start
\* the pixel had |z| <= 2; those turns are the first ones of the run, and a
\* pixel found with |z| > 2 keeps its z and its count in every later turn; so
\* a pixel that never escapes returns max_iter and one with |z0| > 2 returns 0.
C6_CountIsActivePrefix ==
    /\ [](InJulia =>
            \A p \in Pixels(julia) :
                /\ julia.data[p] = Cardinality(JuliaActiveTurns(p))
                /\ JuliaActiveTurns(p) = 1 .. julia.data[p]
                /\ jpc = "returned" /\ max_iter >= 1
                     /\ JuliaActiveTurns(p) = 1 .. max_iter
                     => julia.data[p] = max_iter
                /\ jpc = "returned" /\ max_iter >= 1 /\ ~AbsLe2(Z0.data[p])
                     => julia.data[p] = 0)
    /\ [][jpc = "loop" /\ jpc' = "loop" =>
            \A p \in Pixels(julia) :
                ~AbsLe2(Z.data[p]) =>
                    /\ Z'.data[p] = Z.data[p]
                    /\ julia'.data[p] = julia.data[p]]_vars

\* one grid with a pixel that never escapes, one outside the radius from the
\* start and one that escapes in between
C6_Witness ==
    /\ jpc = "returned" /\ max_iter = MaxIter
    /\ \E p \in Pixels(julia) : julia.data[p] = max_iter /\ AbsLe2(Z.data[p])
    /\ \E p \in Pixels(julia) : julia.data[p] = 0 /\ ~AbsLe2(Z0.data[p])
    /\ \E p \in Pixels(julia) : 0 < julia.data[p] /\ julia.data[p] < max_iter

\* C7 (SpecJulia): of two calls with the same region, resolution and c, the
\* one with the larger max_iter returns at every pixel a count at least as
\* large.
C7_MonotoneInBudget ==
    jpc = "returned" /\ jreturned.returned =>
        \A p \in Pixels(julia) :
            /\ jreturned.max_iter <= max_iter
                 => jreturned.value.data[p] <= julia.data[p]
            /\ max_iter <= jreturned.max_iter
                 => julia.data[p] <= jreturned.value.data[p]

\* two calls, the second with a larger budget: some count grew, some stayed
C7_Witness ==
    /\ jpc = "returned" /\ jreturned.returned
    /\ 1 <= jreturned.max_iter /\ jreturned.max_iter < max_iter
    /\ \E p \in Pixels(julia) : jreturned.value.data[p] < julia.data[p]
    /\ \E p \in Pixels(julia) :
         jreturned.value.data[p] = julia.data[p] /\ julia.data[p] >= 1

\* a region and an explicit resolution the data model allows
ValidRegion(a) == a.xmin < a.xmax /\ a.ymin < a.ymax
ValidJuliaArgs == ValidRegion(jargs) /\ jargs.width > 0 /\ jargs.height > 0

\* a region and a density whose derived resolution is positive
ValidMandelArgs ==
    /\ ValidRegion(margs)
    /\ margs.pixel_density > 0
    /\ (margs.xmax - margs.xmin) * margs.pixel_density >= Scale * Scale
    /\ (margs.ymax - margs.ymin) * margs.pixel_density >= Scale * Scale

\* C8 (SpecEngine): an invalid configuration never yields a grid or a field:
\* with inverted bounds, a width or height <= 0 (given, or derived from the
\* density) or a budget <= 0 no grid is built and no loop is entered.
C8_InvalidConfigurationRejected ==
    /\ InJulia => ValidJuliaArgs /\ max_iter >= 1
    /\ mpc # "start" /\ mpc # "off" /\ mpc # "raised" => ValidMandelArgs
    /\ InMandel => iterations >= 1

\* the number of samples complex_matrix takes along one axis is n: the product
\* (hi - lo) * pixel_density cut to its integer part
IsIntegerPart(n, lo, hi, pixel_density) ==
    /\ n >= 0
    /\ n * Scale * Scale <= (hi - lo) * pixel_density
    /\ (hi - lo) * pixel_density < (n + 1) * Scale * Scale

ExpectShape(h, w) ==
    /\ c.shape = <<h, w>>
    /\ Pixels(c) = (1 .. h) \X (1 .. w)
    /\ InMandel => (stable.shape = <<h, w>> /\ Pixels(stable) = (1 .. h) \X (1 .. w))

=============================================================================
